---- MODULE Spec2Model ----
(***************************************************************************)
(* Model of project-1/requests.go: a local HTTP server with two routes     *)
(* (startServer), three sequential client calls (runGet, runGetFullReq,    *)
(* runTransportAndPost) and the driver (main) that starts the server,      *)
(* waits for its address on an unbuffered channel and runs the calls.      *)
(*                                                                         *)
(* Texts (bodies, error texts, output) are strings, and a string is a      *)
(* sequence of bytes: \o concatenates, Len counts, SubSeq cuts.             *)
(*                                                                         *)
(* The listener accepts connections from any peer (":0" binds all          *)
(* interfaces), so besides the three driver calls the model lets the       *)
(* environment send requests of its own: one other peer, on one           *)
(* connection, one request after the other.                                *)
(***************************************************************************)
EXTENDS Integers, Sequences, FiniteSets, TLC

\* ----------------------------------------------------------------- bounds
\* Longest body the other peer sends, in bytes.
MaxLen == 1

\* ------------------------------------------------------ program constants
\* main runs three calls: runGet, runGetFullReq, runTransportAndPost.
NumCalls == 3
\* The status the /raw_body handler gives http.Error.
StatusInternalServerError == 500
\* The status net/http sends when a handler writes without WriteHeader.
StatusOK == 200

Calls == 1..NumCalls
\* The other peer's connection.
Peer == NumCalls + 1
ConnIds == Calls \cup {Peer}

Bytes == {"a", "b"}
Methods == {"GET", "POST"}
Paths == {"/", "/raw_body"}
\* Error texts a failed read can carry.
ReadErrors == {"unexpected EOF"}

RECURSIVE SeqsUpTo(_)
SeqsUpTo(n) ==
  IF n = 0 THEN {""}
  ELSE LET S == SeqsUpTo(n - 1)
       IN S \cup {s \o b : s \in {t \in S : Len(t) = n - 1}, b \in Bytes}

Bodies == SeqsUpTo(MaxLen)

\* data := `{"id": 42, "user": "rvasily"}`
data == "{\"id\": 42, \"user\": \"rvasily\"}"

NoReq == [method |-> "", path |-> "", query |-> "", body |-> ""]

\* The request each driver call builds.
CallRequest(i) ==
  IF i = 1 THEN [method |-> "GET", path |-> "/", query |-> "param=123&param2=test", body |-> ""]
  ELSE IF i = 2 THEN [method |-> "GET", path |-> "/", query |-> "id=42&user=rvasily", body |-> ""]
  ELSE [method |-> "POST", path |-> "/raw_body", query |-> "", body |-> data]

\* Only runTransportAndPost's client has a Timeout.
HasTimeout(i) == i = 3

\* Mutant: the calls run in the order runGet, runTransportAndPost,
\* runGetFullReq.
NextCallSwapped(i) == IF i = 1 THEN 3 ELSE IF i = 3 THEN 2 ELSE IF i = 2 THEN 4 ELSE i + 1

\* The order main runs the calls in.
NextCall(i) == i + 1

\* ------------------------------------------------------------------ state
VARIABLES
  mainPc,     \* where main is: "start","recv","println","do","wait","err","read","print","ret","exit","exited"
  call,       \* the driver call main is in (0 before the first)
  serverURL,  \* main's serverURL, "" until received
  addrChan,   \* the unbuffered channel addr: "empty","offered","received"
  srvPc,      \* where startServer is: "idle","listen","addr","sending","serve","serving","panicked"
  listener,   \* "unset", "nil" (Listen failed) or "bound"
  backlog,    \* connections made to the listener and not yet accepted
  reqs,       \* the request carried by each connection
  hpc,        \* where each connection's handler is: "none","root","read","write","ret","done"
  hrd,        \* what ReadAll(r.Body) returned in the /raw_body handler
  w,          \* each handler's ResponseWriter: status (0: nothing written) and body
  rb,         \* each r.Body: whether its read has finished, how often the handler closed it
  attempts,   \* per driver call: how many times it called Get/Do
  err,        \* per driver call: the error Get/Do returned ("" for nil)
  resp,       \* per driver call: the response Get/Do returned
  respBody,   \* per driver call: what ReadAll(resp.Body) returned
  rderr,      \* per driver call: the error ReadAll(resp.Body) returned ("" for nil)
  cb,         \* per driver call: resp.Body, whether open, read, and how often closed
  done,       \* per driver call: whether the function has returned
  early,      \* per driver call: whether its connection was made before server.Serve
  stdout      \* what the process printed, in order

vars == <<mainPc, call, serverURL, addrChan, srvPc, listener, backlog, reqs, hpc,
          hrd, w, rb, attempts, err, resp, respBody, rderr, cb, done, early,
          stdout>>

srvVars == <<srvPc, listener>>
connVars == <<backlog, reqs, hpc, hrd, w, rb>>
clientVars == <<attempts, err, resp, respBody, rderr, cb, done, early>>

NoResp == [status |-> 0, body |-> ""]

\* The process is running: main has not returned and no goroutine has panicked.
Running == mainPc # "exited" /\ srvPc # "panicked"

Init ==
  /\ mainPc = "start"
  /\ call = 0
  /\ serverURL = ""
  /\ addrChan = "empty"
  /\ srvPc = "idle"
  /\ listener = "unset"
  /\ backlog = << >>
  /\ reqs = [c \in ConnIds |-> NoReq]
  /\ hpc = [c \in ConnIds |-> "none"]
  /\ hrd = [c \in ConnIds |-> [data |-> "", err |-> ""]]
  /\ w = [c \in ConnIds |-> NoResp]
  /\ rb = [c \in ConnIds |-> [read |-> FALSE, closes |-> 0]]
  /\ attempts = [i \in Calls |-> 0]
  /\ err = [i \in Calls |-> ""]
  /\ resp = [i \in Calls |-> NoResp]
  /\ respBody = [i \in Calls |-> ""]
  /\ rderr = [i \in Calls |-> ""]
  /\ cb = [i \in Calls |-> [open |-> FALSE, read |-> FALSE, closes |-> 0]]
  /\ done = [i \in Calls |-> FALSE]
  /\ early = [i \in Calls |-> FALSE]
  /\ stdout = << >>

\* ----------------------------------------------------------------- server
\* main: addr := make(chan string); go startServer(addr)
MainStart ==
  /\ Running
  /\ mainPc = "start"
  /\ mainPc' = "recv"
  /\ srvPc' = "listen"
  /\ UNCHANGED <<call, serverURL, addrChan, listener, connVars, clientVars, stdout>>

\* listener, _ := net.Listen("tcp", ":0"): the error is dropped, and the
\* listener is nil when binding fails.
SrvListen ==
  /\ Running
  /\ srvPc = "listen"
  /\ \E ok \in BOOLEAN : listener' = IF ok THEN "bound" ELSE "nil"
  /\ srvPc' = "addr"
  /\ UNCHANGED <<mainPc, call, serverURL, addrChan, connVars, clientVars, stdout>>

\* addr <- listener.Addr().String(): the operand is evaluated first, and
\* calling Addr on the nil listener panics, which ends the process.
SrvSend ==
  /\ Running
  /\ srvPc = "addr"
  /\ IF listener = "bound"
       THEN srvPc' = "sending" /\ addrChan' = "offered"
       ELSE srvPc' = "panicked" /\ addrChan' = addrChan
  /\ UNCHANGED <<mainPc, call, serverURL, listener, connVars, clientVars, stdout>>

\* The send on the unbuffered channel returns once main has received.
SrvSendDone ==
  /\ Running
  /\ srvPc = "sending"
  /\ addrChan = "received"
  /\ srvPc' = "serve"
  /\ UNCHANGED <<mainPc, call, serverURL, addrChan, listener, connVars, clientVars, stdout>>

\* server.Serve(listener): the accept loop starts.
SrvServe ==
  /\ Running
  /\ srvPc = "serve"
  /\ srvPc' = "serving"
  /\ UNCHANGED <<mainPc, call, serverURL, addrChan, listener, connVars, clientVars, stdout>>

\* mux: "/raw_body" matches that path only, "/" every other path.
Route(path) == IF path = "/raw_body" THEN "read" ELSE "root"

\* Serve accepts the oldest pending connection and runs its handler in a
\* goroutine of its own.
SrvAccept ==
  /\ Running
  /\ srvPc = "serving"
  /\ backlog # << >>
  /\ LET c == Head(backlog)
     IN /\ backlog' = Tail(backlog)
        /\ hpc' = [hpc EXCEPT ![c] = Route(reqs[c].path)]
  /\ UNCHANGED <<mainPc, call, serverURL, addrChan, srvVars, reqs, hrd, w, rb, clientVars, stdout>>

\* ----------------------------------------------------------------- routes
\* fmt.Fprintf(w, ...): the first write sends status 200, every write appends.
Fprintf(wr, text) ==
  [status |-> IF wr.status = 0 THEN StatusOK ELSE wr.status, body |-> wr.body \o text]

\* http.Error(w, text, code): WriteHeader(code), then Fprintln(w, text), which
\* writes the text and a newline.
HttpError(wr, text, code) ==
  [status |-> code, body |-> wr.body \o text \o "\n"]

\* The %#v form of r.URL, reduced to the fields the requests set.
UrlGoString(r) == "&url.URL{Path:\"" \o r.path \o "\", RawQuery:\"" \o r.query \o "\"}"

\* The "/" handler: two Fprintf calls, then it returns.
RootResponse(wr, r) ==
  Fprintf(Fprintf(wr, "getHandler: incoming request\n"),
          "getHandler: r.Url " \o UrlGoString(r) \o "\n")

HRoot(c) ==
  /\ Running
  /\ hpc[c] = "root"
  /\ w' = [w EXCEPT ![c] = RootResponse(w[c], reqs[c])]
  /\ hpc' = [hpc EXCEPT ![c] = "done"]
  /\ UNCHANGED <<mainPc, call, serverURL, addrChan, srvVars, backlog, reqs, hrd, rb, clientVars, stdout>>

\* What a read that fails has got so far: a prefix of the text.  The model
\* tries the empty prefix, half of the text and all of it.
Prefixes(s) == {SubSeq(s, 1, k) : k \in {0, Len(s) \div 2, Len(s)}}

\* body, err := ioutil.ReadAll(r.Body), followed by defer r.Body.Close().
HReadAll(c) ==
  /\ Running
  /\ hpc[c] = "read"
  /\ \/ hrd' = [hrd EXCEPT ![c] = [data |-> reqs[c].body, err |-> ""]]
     \/ \E e \in ReadErrors, p \in Prefixes(reqs[c].body) :
          hrd' = [hrd EXCEPT ![c] = [data |-> p, err |-> e]]
  /\ rb' = [rb EXCEPT ![c].read = TRUE]
  /\ hpc' = [hpc EXCEPT ![c] = "write"]
  /\ UNCHANGED <<mainPc, call, serverURL, addrChan, srvVars, backlog, reqs, w, clientVars, stdout>>

\* Mutant: the return after http.Error is missing.
RawBodyResponseNoReturn(wr, rd) ==
  LET e == IF rd.err # "" THEN HttpError(wr, rd.err, StatusInternalServerError) ELSE wr
  IN Fprintf(e, "postHandler: raw body " \o rd.data \o "\n")

\* Mutant: the echo line drops the body's last byte.
RawBodyResponseTruncated(wr, rd) ==
  IF rd.err # ""
    THEN HttpError(wr, rd.err, StatusInternalServerError)
    ELSE Fprintf(wr, "postHandler: raw body "
                     \o SubSeq(rd.data, 1, Len(rd.data) - 1) \o "\n")

\* The /raw_body handler after the read: http.Error and return when the read
\* failed, otherwise the echo line.
RawBodyResponse(wr, rd) ==
  IF rd.err # ""
    THEN HttpError(wr, rd.err, StatusInternalServerError)
    ELSE Fprintf(wr, "postHandler: raw body " \o rd.data \o "\n")

HWrite(c) ==
  /\ Running
  /\ hpc[c] = "write"
  /\ w' = [w EXCEPT ![c] = RawBodyResponse(w[c], hrd[c])]
  /\ hpc' = [hpc EXCEPT ![c] = "ret"]
  /\ UNCHANGED <<mainPc, call, serverURL, addrChan, srvVars, backlog, reqs, hrd, rb, clientVars, stdout>>

\* Mutant: the defer is registered after the error check, so the 500 path
\* returns without closing.
DeferredCloseAfterCheck(body, rd) ==
  IF rd.err # "" THEN body ELSE [body EXCEPT !.closes = @ + 1]

\* The deferred r.Body.Close() runs when the handler returns, on either path.
DeferredClose(body, rd) == [body EXCEPT !.closes = @ + 1]

HReturn(c) ==
  /\ Running
  /\ hpc[c] = "ret"
  /\ rb' = [rb EXCEPT ![c] = DeferredClose(rb[c], hrd[c])]
  /\ hpc' = [hpc EXCEPT ![c] = "done"]
  /\ UNCHANGED <<mainPc, call, serverURL, addrChan, srvVars, backlog, reqs, hrd, w, clientVars, stdout>>

\* The other peer sends a request to the bound listener, its first or, once
\* the one before is answered, its next: the handler then starts afresh.
PeerRequest ==
  /\ Running
  /\ listener = "bound"
  /\ hpc[Peer] \in {"none", "done"}
  /\ \A k \in 1..Len(backlog) : backlog[k] # Peer
  /\ \E m \in Methods, p \in Paths, b \in Bodies :
       reqs' = [reqs EXCEPT ![Peer] = [method |-> m, path |-> p, query |-> "", body |-> b]]
  /\ backlog' = Append(backlog, Peer)
  /\ hpc' = [hpc EXCEPT ![Peer] = "none"]
  /\ hrd' = [hrd EXCEPT ![Peer] = [data |-> "", err |-> ""]]
  /\ w' = [w EXCEPT ![Peer] = NoResp]
  /\ rb' = [rb EXCEPT ![Peer] = [read |-> FALSE, closes |-> 0]]
  /\ UNCHANGED <<mainPc, call, serverURL, addrChan, srvVars, clientVars, stdout>>

\* ----------------------------------------------------------------- driver
\* listener.Addr().String() of the listener bound to ":0".
ListenAddr == "[::]:port"

\* Mutant: main goes on without waiting for the address.
MainRecvNoWait ==
  /\ Running
  /\ mainPc = "recv"
  /\ mainPc' = "println"
  /\ serverURL' = "http://"
  /\ UNCHANGED <<call, addrChan, srvVars, connVars, clientVars, stdout>>

\* serverURL := "http://" + <-addr: main blocks until startServer sends.
MainRecv ==
  /\ Running
  /\ mainPc = "recv"
  /\ addrChan = "offered"
  /\ addrChan' = "received"
  /\ serverURL' = "http://" \o ListenAddr
  /\ mainPc' = "println"
  /\ UNCHANGED <<call, srvVars, connVars, clientVars, stdout>>

\* What main does when the function it is in returns: the next call, or the
\* end of main.
Return(i) ==
  IF NextCall(i) \in Calls
    THEN mainPc' = "do" /\ call' = NextCall(i)
    ELSE mainPc' = "exit" /\ call' = call

\* fmt.Println("Server started at:", serverURL), then the first call.
MainPrintln ==
  /\ Running
  /\ mainPc = "println"
  /\ stdout' = Append(stdout, [kind |-> "started", call |-> 0, text |-> serverURL])
  /\ Return(0)
  /\ UNCHANGED <<serverURL, addrChan, srvVars, connVars, clientVars>>

\* Mutant: the socket listens only once Serve runs, after the address has
\* been announced.
ReachableOnceServing(url) ==
  url = "http://" \o ListenAddr /\ listener = "bound" /\ srvPc = "serving"

\* A connection to url can be made when url names the bound listener: the
\* kernel queues it whether or not Serve is accepting yet.
Reachable(url) == url = "http://" \o ListenAddr /\ listener = "bound"

\* http.Get(url) / client.Do(req) up to the point where the request is on its
\* way: it fails when the address cannot be connected to, or for any other
\* transport fault; otherwise the connection is queued at the listener.
\* Every request is taken through the listener's queue (the transport's reuse
\* of an idle connection is not modelled).  http.NewRequest cannot fail here:
\* the method is a constant and the URL is built from the listener's address.
ClientDo ==
  /\ Running
  /\ mainPc = "do"
  /\ attempts' = [attempts EXCEPT ![call] = @ + 1]
  /\ \/ /\ ~Reachable(serverURL)
        /\ err' = [err EXCEPT ![call] = "connection refused"]
        /\ mainPc' = "err"
        /\ UNCHANGED <<backlog, reqs, early>>
     \/ /\ Reachable(serverURL)
        /\ err' = [err EXCEPT ![call] = "dial error"]
        /\ mainPc' = "err"
        /\ UNCHANGED <<backlog, reqs, early>>
     \/ /\ Reachable(serverURL)
        /\ reqs' = [reqs EXCEPT ![call] = CallRequest(call)]
        /\ backlog' = Append(backlog, call)
        /\ early' = [early EXCEPT ![call] = srvPc # "serving"]
        /\ mainPc' = "wait"
        /\ err' = err
  /\ UNCHANGED <<call, serverURL, addrChan, srvVars, hpc, hrd, w, rb, resp, respBody, rderr, cb, done, stdout>>

\* client.Timeout (10 s) expires while the third call waits for the response.
ClientTimeout ==
  /\ Running
  /\ mainPc = "wait"
  /\ HasTimeout(call)
  /\ err' = [err EXCEPT ![call] = "timeout"]
  /\ mainPc' = "err"
  /\ UNCHANGED <<call, serverURL, addrChan, srvVars, connVars, attempts, resp, respBody, rderr, cb, done, early, stdout>>

\* Get/Do returns the response once the handler has returned; the call then
\* registers defer resp.Body.Close().
ClientRecv ==
  /\ Running
  /\ mainPc = "wait"
  /\ hpc[call] = "done"
  /\ resp' = [resp EXCEPT ![call] = w[call]]
  /\ cb' = [cb EXCEPT ![call].open = TRUE]
  /\ mainPc' = "read"
  /\ UNCHANGED <<call, serverURL, addrChan, srvVars, connVars, attempts, err, respBody, rderr, done, early, stdout>>

\* Mutant: the error branch ends the process (log.Fatal).
ClientPrintErrFatal ==
  /\ Running
  /\ mainPc = "err"
  /\ stdout' = Append(stdout, [kind |-> "error", call |-> call, text |-> err[call]])
  /\ done' = [done EXCEPT ![call] = TRUE]
  /\ mainPc' = "exited"
  /\ UNCHANGED <<call, serverURL, addrChan, srvVars, connVars, attempts, err, resp, respBody, rderr, cb, early>>

\* if err != nil { fmt.Println("error happend", err); return }
ClientPrintErr ==
  /\ Running
  /\ mainPc = "err"
  /\ stdout' = Append(stdout, [kind |-> "error", call |-> call, text |-> err[call]])
  /\ done' = [done EXCEPT ![call] = TRUE]
  /\ Return(call)
  /\ UNCHANGED <<serverURL, addrChan, srvVars, connVars, attempts, err, resp, respBody, rderr, cb, early>>

\* respBody, err := ioutil.ReadAll(resp.Body): all of the body, or part of it
\* and an error.
ClientReadAll ==
  /\ Running
  /\ mainPc = "read"
  /\ \/ respBody' = [respBody EXCEPT ![call] = resp[call].body] /\ rderr' = rderr
     \/ \E e \in ReadErrors, p \in Prefixes(resp[call].body) :
          /\ respBody' = [respBody EXCEPT ![call] = p]
          /\ rderr' = [rderr EXCEPT ![call] = e]
  /\ cb' = [cb EXCEPT ![call].read = TRUE]
  /\ mainPc' = "print"
  /\ UNCHANGED <<call, serverURL, addrChan, srvVars, connVars, attempts, err, resp, done, early, stdout>>

\* What the call prints after the read: the body line, with whatever ReadAll
\* returned; the read's error is not looked at.
PrintedAfterRead(i) == [kind |-> "body", call |-> i, text |-> respBody[i]]

\* fmt.Printf("... %#v\n\n\n", string(respBody))
ClientPrint ==
  /\ Running
  /\ mainPc = "print"
  /\ stdout' = Append(stdout, PrintedAfterRead(call))
  /\ mainPc' = "ret"
  /\ UNCHANGED <<call, serverURL, addrChan, srvVars, connVars, clientVars>>

\* The deferred resp.Body.Close().
ClientClose(body) == [body EXCEPT !.open = FALSE, !.closes = @ + 1]

\* The call returns: the deferred close runs, then main goes on.
ClientReturn ==
  /\ Running
  /\ mainPc = "ret"
  /\ cb' = [cb EXCEPT ![call] = ClientClose(cb[call])]
  /\ done' = [done EXCEPT ![call] = TRUE]
  /\ Return(call)
  /\ UNCHANGED <<serverURL, addrChan, srvVars, connVars, attempts, err, resp, respBody, rderr, early, stdout>>

\* main returns, which ends the process and with it the server goroutines.
MainExit ==
  /\ Running
  /\ mainPc = "exit"
  /\ mainPc' = "exited"
  /\ UNCHANGED <<call, serverURL, addrChan, srvVars, connVars, clientVars, stdout>>

\* ---------------------------------------------------------- specifications
MainStep ==
  \/ MainStart
  \/ MainRecv
  \/ MainPrintln
  \/ ClientDo
  \/ ClientRecv
  \/ ClientPrintErr
  \/ ClientReadAll
  \/ ClientPrint
  \/ ClientReturn
  \/ MainExit

SrvStep ==
  \/ SrvListen
  \/ SrvSend
  \/ SrvSendDone
  \/ SrvServe
  \/ SrvAccept

HandlerStep(c) ==
  \/ HRoot(c)
  \/ HReadAll(c)
  \/ HWrite(c)
  \/ HReturn(c)

Next ==
  \/ MainStep
  \/ SrvStep
  \/ \E c \in ConnIds : HandlerStep(c)
  \/ ClientTimeout

\* The process with no traffic but the driver's own.
Spec == Init /\ [][Next]_vars

PeerNext ==
  \/ Next
  \/ PeerRequest

\* The process with the other peer's requests arriving at any time.
PeerSpec == Init /\ [][PeerNext]_vars

\* The Go scheduler runs every runnable goroutine eventually: main, the
\* server goroutine and each connection's handler.  A timeout is the
\* environment's and need not happen.
FairSpec ==
  /\ Spec
  /\ WF_vars(MainStep)
  /\ WF_vars(SrvStep)
  /\ \A c \in ConnIds : WF_vars(HandlerStep(c))

\* ----------------------------------------------------------------- claims
ErrPrinted(i) ==
  \E k \in 1..Len(stdout) : stdout[k].call = i /\ stdout[k].kind = "error"

BodyPrinted(i) ==
  \E k \in 1..Len(stdout) : stdout[k].call = i /\ stdout[k].kind = "body"

Issued(i) == attempts[i] > 0

EchoOf(body) == "postHandler: raw body " \o body \o "\n"

\* C1: no driver call issues a request before startServer has sent the bound
\* address on addr and main has received it.
C1_NoRequestBeforeHandoff ==
  \A i \in Calls :
    Issued(i) => /\ addrChan = "received"
                 /\ srvPc \in {"sending", "serve", "serving"}
                 /\ serverURL = "http://" \o ListenAddr

C1_Witness == Issued(1) /\ addrChan = "received"

\* C2: the announced address is that of a bound listener, so no driver call is
\* refused a connection, and (under fair scheduling) a request that is on its
\* way is answered, also when it was sent before server.Serve was called; the
\* third call, the one with a client timeout, may give up first.
C2_AnnouncedAddressAnswers ==
  /\ [](addrChan # "empty" => listener = "bound")
  /\ [](\A i \in Calls : err[i] # "connection refused")
  /\ \A i \in Calls :
       (mainPc = "wait" /\ call = i) ~> (resp[i] # NoResp \/ err[i] = "timeout")

C2_Witness == \E i \in Calls : early[i] /\ resp[i] # NoResp

\* C3: the calls run in the order runGet, runGetFullReq, runTransportAndPost,
\* at most one is outstanding at any time, and each call's result is printed
\* before the next call issues its request.
C3_StrictSequence ==
  /\ \A i, j \in Calls :
       (i < j /\ Issued(j)) => (done[i] /\ (ErrPrinted(i) \/ BodyPrinted(i)))
  /\ Cardinality({i \in Calls : Issued(i) /\ ~done[i]}) <= 1
  /\ \A k, l \in 1..Len(stdout) : k < l => stdout[k].call <= stdout[l].call

C3_Witness == mainPc = "wait" /\ call = 3 /\ BodyPrinted(1) /\ BodyPrinted(2)

\* C4: a call whose request fails with a transport error prints the error and
\* no body, no call sends a second request, and main still runs every call.
C4_TransportError ==
  /\ \A i \in Calls : attempts[i] <= 1
  /\ \A i \in Calls :
       (err[i] # "" /\ done[i]) =>
         /\ ErrPrinted(i)
         /\ ~BodyPrinted(i)
         /\ ~cb[i].read
  /\ mainPc \in {"exit", "exited"} => \A i \in Calls : attempts[i] = 1 /\ done[i]

C4_Witness ==
  /\ mainPc = "exited"
  /\ err[1] = "dial error"
  /\ err[3] = "timeout"
  /\ BodyPrinted(2)

\* C5: no error is fatal to the process, a failure to bind the listener
\* included: the process never crashes.
C5_NoErrorIsFatal == srvPc # "panicked"

\* C6: under fair scheduling the process runs to completion: main receives the
\* address, the three calls return and main exits; the server is never stopped
\* before that.
C6_RunsToCompletion ==
  /\ <>(mainPc = "exited" /\ addrChan = "received" /\ \A i \in Calls : done[i])
  /\ [][srvPc = "serving" => srvPc' = "serving"]_vars

\* C7 as stated: when the read of the request body fails in the /raw_body
\* handler, the status is 500 and the response body equals the error's text.
C7_BodyEqualsErrorText ==
  \A c \in ConnIds :
    (hpc[c] \in {"ret", "done"} /\ hrd[c].err # "") =>
      /\ w[c].status = StatusInternalServerError
      /\ w[c].body = hrd[c].err

\* C7 amended: when the read of the request body fails in the /raw_body
\* handler, the status is 500 and the response body is the error's text
\* followed by one newline, with no echo line.
C7_BodyIsErrorTextLine ==
  \A c \in ConnIds :
    (hpc[c] \in {"ret", "done"} /\ hrd[c].err # "") =>
      /\ w[c].status = StatusInternalServerError
      /\ w[c].body = hrd[c].err \o "\n"

C7_Witness == \E c \in ConnIds : hpc[c] = "done" /\ hrd[c].err # ""

\* C8: whatever body is sent to /raw_body, with whatever method, when it is
\* read successfully the response has status 200 and is the one line
\* "postHandler: raw body <body>", the body unchanged and complete; the third
\* driver call gets back the literal it posted.
C8_RawBodyEcho ==
  /\ \A c \in ConnIds :
       (hpc[c] \in {"ret", "done"} /\ reqs[c].path = "/raw_body" /\ hrd[c].err = "") =>
         w[c] = [status |-> StatusOK, body |-> EchoOf(reqs[c].body)]
  /\ (resp[3].status = StatusOK) => resp[3].body = EchoOf(data)
  /\ (cb[3].read /\ rderr[3] = "" /\ resp[3].status = StatusOK) => respBody[3] = EchoOf(data)

C8_Witness ==
  /\ hpc[Peer] = "done"
  /\ reqs[Peer].path = "/raw_body"
  /\ reqs[Peer].method = "GET"
  /\ reqs[Peer].body # ""
  /\ hrd[Peer].err = ""
  /\ respBody[3] = EchoOf(data)

\* C9: a failure to read the response body in a driver call is reported like
\* a transport error: the error is printed and no body line is.
C9_ClientReadErrorReported ==
  \A i \in Calls :
    (rderr[i] # "" /\ done[i]) => (ErrPrinted(i) /\ ~BodyPrinted(i))

\* C10: a body is closed exactly once and only after its read has finished:
\* resp.Body in every driver call that got a response, whether the read
\* succeeded or failed, and r.Body in the /raw_body handler on the success
\* path and on the 500 path; none is open when its function has returned.
C10_ClosedOnceAfterRead ==
  /\ \A i \in Calls :
       /\ cb[i].closes <= 1
       /\ cb[i].closes = 1 => cb[i].read
       /\ done[i] => ~cb[i].open
       /\ (done[i] /\ resp[i] # NoResp) => cb[i].closes = 1
       /\ resp[i] = NoResp => cb[i].closes = 0
  /\ \A c \in ConnIds :
       /\ rb[c].closes <= 1
       /\ rb[c].closes = 1 => rb[c].read
       /\ (hpc[c] = "done" /\ reqs[c].path = "/raw_body") => rb[c].closes = 1

C10_Witness ==
  /\ \E c \in ConnIds : hpc[c] = "done" /\ hrd[c].err # "" /\ rb[c].closes = 1
  /\ \E c \in ConnIds : hpc[c] = "done" /\ hrd[c].err = "" /\ rb[c].closes = 1
  /\ \E i \in Calls : done[i] /\ rderr[i] # "" /\ cb[i].closes = 1
  /\ \E i \in Calls : done[i] /\ resp[i] # NoResp /\ rderr[i] = "" /\ cb[i].closes = 1

====
